---------------------------- MODULE Spec2Model ----------------------------
(***************************************************************************)
(* A model of ci_scripts/pygha.py: the CI helper that turns the user's     *)
(* build preferences into a build-configuration line (parse_config) and    *)
(* into job matrices (get_stage_matrices).                                 *)
(*                                                                         *)
(* The program is a one-shot command: every behaviour is "start", then one *)
(* call with inputs drawn from bounded sets, then its result.              *)
(*                                                                         *)
(* Representation of Python values:                                        *)
(*   - an optional string (os.environ lookup) is <<>> when absent and      *)
(*     <<s>> when present;                                                 *)
(*   - a decoded JSON value is a record [t, v]: t is its type ("bool",     *)
(*     "num", "str", "null") and v its JSON text as a string;              *)
(*   - an insertion-ordered dict is a sequence of [key, ...] records with  *)
(*     distinct keys; a dict whose order is never observed is a function;  *)
(*   - a string the code splits is a sequence of lexemes (text pieces),    *)
(*     its text being their concatenation.                                 *)
(***************************************************************************)
EXTENDS Integers, Sequences, FiniteSets, TLC

VARIABLES pc,       \* "start", "platforms" (parse_user_config returned), "done"
          environ,  \* os.environ: variable name -> optional string
          call,     \* the function called and its arguments
          ret       \* what the call returned / printed, and the exit status

vars == <<pc, environ, call, ret>>

-----------------------------------------------------------------------------
(* Bounds of the inputs *)

MaxKeys == 2        \* entries of the user's JSON object
MaxArches == 3      \* tokens of the user's arches string
MaxPlatforms == 2   \* tokens of the user's platforms string / platform lists
MaxVerLen == 5      \* characters of one version string
MaxVersions == 2    \* versions of the user's python_versions string

-----------------------------------------------------------------------------
(* Generic helpers *)

Range(s) == {s[i] : i \in 1..Len(s)}

SeqsUpTo(S, n) == UNION {[1..k -> S] : k \in 0..n}

RECURSIVE Concat(_)
Concat(parts) == IF parts = <<>> THEN "" ELSE Head(parts) \o Concat(Tail(parts))

RECURSIVE SelectSeqBy(_, _)
SelectSeqBy(s, S) ==
    IF s = <<>> THEN <<>>
    ELSE IF Head(s) \in S THEN <<Head(s)>> \o SelectSeqBy(Tail(s), S)
         ELSE SelectSeqBy(Tail(s), S)

\* ' '.join / '-'.join / '.'.join over strings
RECURSIVE JoinStr(_, _)
JoinStr(sep, s) ==
    IF s = <<>> THEN ""
    ELSE IF Len(s) = 1 THEN s[1]
         ELSE s[1] \o sep \o JoinStr(sep, Tail(s))

\* list.remove(x): drops the first occurrence of x only
RECURSIVE RemoveFirst(_, _)
RemoveFirst(s, x) ==
    IF s = <<>> THEN <<>>
    ELSE IF Head(s) = x THEN Tail(s)
         ELSE <<Head(s)>> \o RemoveFirst(Tail(s), x)

-----------------------------------------------------------------------------
(* Python values *)

None == <<>>                      \* an absent optional string
Some(s) == <<s>>

JBool(b) == [t |-> "bool", v |-> IF b THEN "true" ELSE "false"]
JNum(text) == [t |-> "num", v |-> text]
JStr(s) == [t |-> "str", v |-> s]
JNull == [t |-> "null", v |-> "null"]

\* Python's ==  between a decoded JSON value and True / False: bool is a
\* subclass of int, so 1 == True and 0 == False
PyEqualsTrue(value) ==
    \/ value.t = "bool" /\ value.v = "true"
    \/ value.t = "num" /\ value.v = "1"

PyEqualsFalse(value) ==
    \/ value.t = "bool" /\ value.v = "false"
    \/ value.t = "num" /\ value.v = "0"

\* truth value testing (`if value`, `'ON' if value else 'OFF'`)
PyTruthy(value) ==
    CASE value.t = "bool" -> value.v = "true"
      [] value.t = "num" -> value.v # "0"
      [] value.t = "str" -> value.v # ""
      [] OTHER -> FALSE

\* str(value), as an f-string renders it
PyStr(value) ==
    CASE value.t = "bool" -> (IF value.v = "true" THEN "True" ELSE "False")
      [] value.t = "null" -> "None"
      [] OTHER -> value.v

\* insertion-ordered dict as a sequence of [key, value] records
DictKeys(d) == {d[i].key : i \in 1..Len(d)}

DictGet(d, k) == (CHOOSE i \in 1..Len(d) : d[i].key = k)

DictSet(d, k, v) ==
    IF k \in DictKeys(d)
    THEN [i \in 1..Len(d) |-> IF d[i].key = k THEN [key |-> k, value |-> v] ELSE d[i]]
    ELSE Append(d, [key |-> k, value |-> v])

-----------------------------------------------------------------------------
(* ConfigStage, SdkProject, DEFAULT_CONFIG, STAGE_MATRIX_KEYS *)

BUILD_SDIST == "BUILD_SDIST"
BUILD_WHEEL == "BUILD_WHEEL"
VALIDATE_WHEEL == "VALIDATE_WHEEL"

Columnar == "PYCBCC"
Operational == "PYCBC"

\* an sdk_alias is kept as the pieces that str.replace('SDKPROJECT', ...) sees
DEFAULT_CONFIG == <<
    [key |-> "USE_OPENSSL", default |-> Some("OFF"), required |-> TRUE,
     sdk_alias |-> <<"SDKPROJECT", "_USE_OPENSSL">>],
    [key |-> "OPENSSL_VERSION", default |-> None, required |-> FALSE,
     sdk_alias |-> <<"SDKPROJECT", "_OPENSSL_VERSION">>],
    [key |-> "SET_CPM_CACHE", default |-> Some("ON"), required |-> FALSE,
     sdk_alias |-> <<"SDKPROJECT", "_SET_CPM_CACHE">>],
    [key |-> "USE_LIMITED_API", default |-> None, required |-> FALSE,
     sdk_alias |-> <<"SDKPROJECT", "_LIMITED_API">>],
    [key |-> "VERBOSE_MAKEFILE", default |-> None, required |-> FALSE,
     sdk_alias |-> <<"SDKPROJECT", "_VERBOSE_MAKEFILE">>],
    [key |-> "BUILD_TYPE", default |-> Some("RelWithDebInfo"), required |-> FALSE,
     sdk_alias |-> <<"SDKPROJECT", "_BUILD_TYPE">>],
    [key |-> "CB_CACHE_OPTION", default |-> None, required |-> FALSE,
     sdk_alias |-> <<"SDKPROJECT", "_CB_CACHE_OPTION">>] >>

STAGE_MATRIX_KEYS == {"python-versions", "python_versions", "arches", "platforms"}

\* os.environ[key]; None when the variable is not set
get_env_variable(env, key) == env[key]

\* str.upper() on the project names the model draws
Upper(s) ==
    CASE s = "columnar" -> "COLUMNAR"
      [] s = "pycbc" -> "PYCBC"
      [] s = "Operational" -> "OPERATIONAL"
      [] OTHER -> s

\* SdkProject.from_env: None stands for the sys.exit(1) paths
SdkProject_from_env(env) ==
    LET e == get_env_variable(env, "CBCI_PROJECT_TYPE") IN
    IF e = None THEN None
    ELSE IF Upper(e[1]) \in {"COLUMNAR", "PYCBCC"} THEN Some(Columnar)
    ELSE IF Upper(e[1]) \in {"OPERATIONAL", "PYCBC"} THEN Some(Operational)
    ELSE None

\* config[key][field] = value
SetField(config, k, field, value) ==
    [i \in 1..Len(config) |->
        IF config[i].key = k THEN [config[i] EXCEPT ![field] = value] ELSE config[i]]

\* v['sdk_alias'].replace('SDKPROJECT', project.value)
ReplaceProject(alias, project) ==
    Concat([i \in 1..Len(alias) |-> IF alias[i] = "SDKPROJECT" THEN project ELSE alias[i]])

\* a build_default_config that forgets the stage adjustments
build_default_config_NoStage(stage, project, env) ==
    [i \in 1..Len(DEFAULT_CONFIG) |->
        [DEFAULT_CONFIG[i] EXCEPT !.sdk_alias = ReplaceProject(@, project)]]

\* `if prefer_ccache:` is false for an unset and for an empty variable
build_default_config(stage, project, env) ==
    LET prefer_ccache == get_env_variable(env, "PREFER_CCACHE")
        prefer_verbose == get_env_variable(env, "PREFER_VERBOSE_MAKEFILE")
        c0 == DEFAULT_CONFIG
        c1 == IF stage = BUILD_SDIST THEN SetField(c0, "SET_CPM_CACHE", "required", TRUE)
              ELSE IF stage = BUILD_WHEEL THEN SetField(c0, "BUILD_TYPE", "required", TRUE)
              ELSE c0
        c2 == IF stage = BUILD_WHEEL /\ prefer_ccache # None /\ prefer_ccache[1] # ""
              THEN Append(SetField(SetField(c1, "CB_CACHE_OPTION", "required", TRUE),
                                   "CB_CACHE_OPTION", "default", Some("ccache")),
                          [key |-> "CCACHE_DIR", default |-> prefer_ccache,
                           required |-> TRUE, sdk_alias |-> <<"CCACHE_DIR">>])
              ELSE c1
        c3 == IF stage = BUILD_WHEEL /\ prefer_verbose # None /\ prefer_verbose[1] # ""
              THEN SetField(SetField(c2, "VERBOSE_MAKEFILE", "required", TRUE),
                            "VERBOSE_MAKEFILE", "default", Some("ON"))
              ELSE c2
    IN [i \in 1..Len(c3) |-> [c3[i] EXCEPT !.sdk_alias = ReplaceProject(@, project)]]

\* user_config_as_json: the variable's text is modelled already tokenised, as
\* [kind |-> "unset" | "invalid" | "object", obj |-> the decoded object];
\* None stands for the sys.exit(1) on a JSON error
user_config_as_json(raw) ==
    IF raw.kind = "invalid" THEN None
    ELSE IF raw.kind = "unset" THEN Some(<<>>)
    ELSE Some(raw.obj)

-----------------------------------------------------------------------------
(* parse_config *)

\* `if value in [True, False]: 'ON' if value else 'OFF'`, else the value itself
CoerceValue(value) ==
    IF PyEqualsTrue(value) \/ PyEqualsFalse(value)
    THEN JStr(IF PyTruthy(value) THEN "ON" ELSE "OFF")
    ELSE value

\* a merge that lets every key through
SkipsKey_Never(key, default_cfg) == FALSE

\* the two `continue`s of the loop over user_config.items()
SkipsKey(key, default_cfg) ==
    \/ key \in STAGE_MATRIX_KEYS
    \/ key \notin DictKeys(default_cfg)

\* the loop over user_config.items(), from the entry at position i
RECURSIVE MergeUserConfig(_, _, _, _)
MergeUserConfig(user_config, default_cfg, cfg, i) ==
    IF i > Len(user_config) THEN cfg
    ELSE LET key == user_config[i].key
             value == user_config[i].value
         IN IF SkipsKey(key, default_cfg)
            THEN MergeUserConfig(user_config, default_cfg, cfg, i + 1)
            ELSE MergeUserConfig(user_config, default_cfg,
                                 DictSet(cfg, key, CoerceValue(value)), i + 1)

\* a default filling that overrides what the user supplied
NeedsDefault_Always(entry, cfg) ==
    entry.required = TRUE /\ entry.default # None

\* `k in required_defaults`, `k not in cfg and default_cfg[k]['default'] is not None`
NeedsDefault(entry, cfg) ==
    /\ entry.required = TRUE
    /\ entry.key \notin DictKeys(cfg)
    /\ entry.default # None

\* the "handle defaults" loop, from the default_cfg entry at position i
RECURSIVE HandleDefaults(_, _, _)
HandleDefaults(default_cfg, cfg, i) ==
    IF i > Len(default_cfg) THEN cfg
    ELSE IF NeedsDefault(default_cfg[i], cfg)
         THEN HandleDefaults(default_cfg,
                             DictSet(cfg, default_cfg[i].key, JStr(default_cfg[i].default[1])),
                             i + 1)
         ELSE HandleDefaults(default_cfg, cfg, i + 1)

\* one "alias=value" token of the printed line, kept with its two halves
Token(default_cfg, entry) ==
    [alias |-> default_cfg[DictGet(default_cfg, entry.key)].sdk_alias,
     value |-> PyStr(entry.value)]

TokenText(tok) == tok.alias \o "=" \o tok.value

Failed == [exit |-> 1, cfg |-> <<>>, tokens |-> <<>>, line |-> ""]

\* parse_config: exit is 1 on the sys.exit(1) paths and on an uncaught
\* exception (default_cfg[k] in the final print raises KeyError for a key the
\* table lacks); nothing is printed then
parse_config(config_stage, env, raw_config) ==
    LET sdk_project == SdkProject_from_env(env)
        user_config == user_config_as_json(raw_config)
    IN IF sdk_project = None \/ user_config = None
       THEN Failed
       ELSE LET default_cfg == build_default_config(config_stage, sdk_project[1], env)
                merged == MergeUserConfig(user_config[1], default_cfg, <<>>, 1)
                cfg == HandleDefaults(default_cfg, merged, 1)
                tokens == [i \in 1..Len(cfg) |-> Token(default_cfg, cfg[i])]
            IN IF ~(DictKeys(cfg) \subseteq DictKeys(default_cfg))
               THEN Failed
               ELSE [exit |-> 0, cfg |-> cfg, tokens |-> tokens,
                     line |-> JoinStr(" ", [i \in 1..Len(tokens) |-> TokenText(tokens[i])])]

-----------------------------------------------------------------------------
(* Strings the code splits: a text is a sequence of lexemes *)

Str(text) == Concat(text)

\* str.replace(old, new) for single-lexeme old and new
Replace(text, old, new) == [i \in 1..Len(text) |-> IF text[i] = old THEN new ELSE text[i]]

\* str.split(): the maximal runs without a blank, empty runs dropped
RECURSIVE SplitWs(_)
SplitWs(text) ==
    IF text = <<>> THEN <<>>
    ELSE LET rest == SplitWs(Tail(text)) IN
         IF Head(text) = " " THEN rest
         ELSE IF Len(text) > 1 /\ text[2] # " "
              THEN <<<<Head(text)>> \o Head(rest)>> \o Tail(rest)
              ELSE <<<<Head(text)>>>> \o rest

\* str.split(sep): the runs between separators, empty runs kept
RECURSIVE SplitOn(_, _)
SplitOn(text, sep) ==
    IF text = <<>> THEN <<<<>>>>
    ELSE LET rest == SplitOn(Tail(text), sep) IN
         IF Head(text) = sep THEN <<<<>>>> \o rest
         ELSE <<<<Head(text)>> \o Head(rest)>> \o Tail(rest)

\* str.lower() on the lexemes the model draws
LowerLexeme(l) ==
    CASE l = "X86_64" -> "x86_64"
      [] l = "ARM64" -> "arm64"
      [] l = "Alpine" -> "alpine"
      [] OTHER -> l

\* a.strip().lower() of a word that split() produced (strip finds no blank)
StripLower(word) == Concat([i \in 1..Len(word) |-> LowerLexeme(word[i])])

\* list(map(lambda a: a.strip().lower(), s.replace(',', ' ').split()))
SplitList(text) ==
    LET words == SplitWs(Replace(text, ",", " "))
    IN [i \in 1..Len(words) |-> StripLower(words[i])]

-----------------------------------------------------------------------------
(* Python versions *)

\* get_supported_python_versions; the variable must be set (else sys.exit(1))
get_supported_python_versions(env) ==
    LET words == SplitWs(get_env_variable(env, "CBCI_SUPPORTED_PYTHON_VERSIONS")[1])
    IN [i \in 1..Len(words) |-> Str(words[i])]

\* an is_supported_python_version that truncates any longer version too
is_supported_python_version_Truncating(version, env) ==
    LET version_tokens == SplitOn(version, ".") IN
    IF Len(version_tokens) = 1 THEN Str(version_tokens[1]) = "3"
    ELSE Str(version_tokens[1]) \o "." \o Str(version_tokens[2])
            \in Range(get_supported_python_versions(env))

is_supported_python_version(version, env) ==
    LET version_tokens == SplitOn(version, ".") IN
    IF Len(version_tokens) = 1 THEN Str(version_tokens[1]) = "3"
    ELSE IF Len(version_tokens) = 2
         THEN Str(version) \in Range(get_supported_python_versions(env))
    ELSE IF Len(version_tokens) = 3
         THEN JoinStr(".", <<Str(version_tokens[1]), Str(version_tokens[2])>>)
                \in Range(get_supported_python_versions(env))
    ELSE FALSE

\* set_python_versions: the loop appends each supported version
set_python_versions(user_config, env) ==
    LET user_python_versions == SplitWs(Replace(user_config, ",", " "))
        kept == SelectSeq(user_python_versions,
                          LAMBDA v : is_supported_python_version(v, env))
    IN [i \in 1..Len(kept) |-> Str(kept[i])]

-----------------------------------------------------------------------------
(* Architectures and platforms *)

get_supported_architectures == <<"x86_64", "arm64", "aarch64">>

\* get_supported_platforms; arch is an optional string here only so that the
\* callers can pass their loop variable; the variables must be set
get_supported_platforms(arch, env) ==
    LET words(key) == LET w == SplitWs(get_env_variable(env, key)[1])
                      IN [i \in 1..Len(w) |-> Str(w[i])]
    IN IF arch = "x86_64" THEN words("CBCI_SUPPORTED_X86_64_PLATFORMS")
       ELSE IF arch \in {"arm64", "aarch64"} THEN words("CBCI_SUPPORTED_ARM64_PLATFORMS")
       ELSE <<>>

\* `for arch in arches: if arch not in supported: arches.remove(arch)`: the
\* list iterator holds an index i into the list the body shrinks, and remove
\* drops the first occurrence of the value.  `bound` is the loop variable
\* `arch` as the loop leaves it: None while it was never assigned.
RECURSIVE FilterArchesLoop(_, _, _)
FilterArchesLoop(arches, i, bound) ==
    IF i > Len(arches) THEN [arches |-> arches, arch |-> bound]
    ELSE LET arch == arches[i] IN
         IF arch \notin Range(get_supported_architectures)
         THEN FilterArchesLoop(RemoveFirst(arches, arch), i + 1, Some(arch))
         ELSE FilterArchesLoop(arches, i + 1, Some(arch))

\* `if 'arm64' in arches and 'aarch64' in arches: arches.remove('aarch64')`
DropAarch64Alias(arches) ==
    IF "arm64" \in Range(arches) /\ "aarch64" \in Range(arches)
    THEN RemoveFirst(arches, "aarch64")
    ELSE arches

\* lines 186-201: the architecture list, and the loop variable left behind
NormalizeArches(user_arches) ==
    LET looped == FilterArchesLoop(SplitList(user_arches), 1, None)
        arches == IF looped.arches = <<>>
                  THEN SubSeq(get_supported_architectures, 1,
                              Len(get_supported_architectures) - 1)
                  ELSE looped.arches
    IN [arches |-> DropAarch64Alias(arches), arch |-> looped.arch]

\* the platform loops (lines 205-213 and 220-228): each platform is tested
\* against get_supported_platforms(arch), arch being the variable the
\* architecture loop left behind.  With arch unbound the first test raises
\* UnboundLocalError, which `except Exception` swallows: nothing is kept.
FilterPlatforms(user_platforms, arch, env) ==
    LET platforms == SplitList(user_platforms) IN
    IF arch = None THEN <<>>
    ELSE SelectSeq(platforms, LAMBDA p : p \in Range(get_supported_platforms(arch[1], env)))

set_os_and_arch(user_platforms, user_arches, env) ==
    LET norm == NormalizeArches(user_arches)
        arches == norm.arches
        x86_64_kept == FilterPlatforms(user_platforms, norm.arch, env)
        x86_64_platforms ==
            IF "x86_64" \in Range(arches)
            THEN (IF x86_64_kept = <<>> THEN get_supported_platforms("x86_64", env)
                  ELSE x86_64_kept)
            ELSE <<>>
        arm64_kept == FilterPlatforms(user_platforms, norm.arch, env)
        arm64_platforms ==
            IF "arm64" \in Range(arches) \/ "aarch64" \in Range(arches)
            THEN (IF arm64_kept = <<>> THEN get_supported_platforms("arm64", env)
                  ELSE arm64_kept)
            ELSE <<>>
    IN [arches |-> arches,
        x86_64_platforms |-> x86_64_platforms,
        arm64_platforms |-> arm64_platforms]

-----------------------------------------------------------------------------
(* Stage matrices: a dict is a function from its keys *)

EmptyDict == [k \in {} |-> <<>>]

Put(d, k, v) == [x \in DOMAIN d \cup {k} |-> IF x = k THEN v ELSE d[x]]

Has(d, k) == k \in DOMAIN d

\* d[k] = [v] when d lacks k, else d[k].append(v)
PutOrAppend(d, k, v) == IF Has(d, k) THEN Put(d, k, Append(d[k], v)) ELSE Put(d, k, <<v>>)

\* d[k] = [v] only when d lacks k
PutIfAbsent(d, k, v) == IF Has(d, k) THEN d ELSE Put(d, k, <<v>>)

\* an exclusion pair {key: value, 'arch': arch}
ExcludePair(key, value, arch) == [k \in {key, "arch"} |-> IF k = key THEN value ELSE arch]

\* an exclusion attached whenever musllinux is built
LinuxBuildExclude_AnyMusl(linux_matrix) ==
    IF "musllinux" \in Range(linux_matrix["linux-type"])
    THEN Put(linux_matrix, "exlude", <<ExcludePair("linux-type", "musllinux", "aarch64")>>)
    ELSE linux_matrix

\* lines 262-263 (the key is spelled 'exlude' in the source)
LinuxBuildExclude(linux_matrix) ==
    IF /\ "aarch64" \in Range(linux_matrix["arch"])
       /\ "musllinux" \in Range(linux_matrix["linux-type"])
    THEN Put(linux_matrix, "exlude", <<ExcludePair("linux-type", "musllinux", "aarch64")>>)
    ELSE linux_matrix

\* lines 290-293
LinuxValidateExclude(linux_matrix, env) ==
    LET alpine_container == get_env_variable(env, "CBCI_DEFAULT_ALPINE_CONTAINER")[1] IN
    IF /\ "aarch64" \in Range(linux_matrix["arch"])
       /\ Has(linux_matrix, "container")
       /\ alpine_container \in Range(linux_matrix["container"])
    THEN Put(linux_matrix, "exlude", <<ExcludePair("container", alpine_container, "aarch64")>>)
    ELSE linux_matrix

build_linux_stage_matrix(python_versions, x86_64_platforms, arm64_platforms, stage, env) ==
    IF stage = BUILD_WHEEL THEN
        LET m1 == IF "linux" \in Range(x86_64_platforms)
                  THEN Put(Put(EmptyDict, "linux-type", <<"manylinux">>), "arch", <<"x86_64">>)
                  ELSE EmptyDict
            m2 == IF "linux" \in Range(arm64_platforms)
                  THEN PutOrAppend(PutIfAbsent(m1, "linux-type", "manylinux"), "arch", "aarch64")
                  ELSE m1
            m3 == IF "alpine" \in Range(x86_64_platforms)
                  THEN PutIfAbsent(PutOrAppend(m2, "linux-type", "musllinux"), "arch", "x86_64")
                  ELSE m2
        IN IF DOMAIN m3 # {}
           THEN LinuxBuildExclude(Put(m3, "python-version", python_versions))
           ELSE m3
    ELSE IF stage = VALIDATE_WHEEL THEN
        LET linux_container == get_env_variable(env, "CBCI_DEFAULT_LINUX_CONTAINER")[1]
            alpine_container == get_env_variable(env, "CBCI_DEFAULT_ALPINE_CONTAINER")[1]
            default_linux_plat == get_env_variable(env, "CBCI_DEFAULT_LINUX_PLATFORM")[1]
            m1 == IF "linux" \in Range(x86_64_platforms)
                  THEN Put(Put(EmptyDict, "container", <<linux_container>>), "arch", <<"x86_64">>)
                  ELSE EmptyDict
            m2 == IF "linux" \in Range(arm64_platforms)
                  THEN PutOrAppend(PutIfAbsent(m1, "container", linux_container), "arch", "aarch64")
                  ELSE m1
            m3 == IF "alpine" \in Range(x86_64_platforms)
                  THEN PutIfAbsent(PutOrAppend(m2, "container", alpine_container), "arch", "x86_64")
                  ELSE m2
        IN IF DOMAIN m3 # {}
           THEN LinuxValidateExclude(
                    Put(Put(m3, "os", <<default_linux_plat>>), "python-version", python_versions),
                    env)
           ELSE m3
    ELSE EmptyDict

build_macos_stage_matrix(python_versions, x86_64_platforms, arm64_platforms, stage, env) ==
    LET macos_x86_64_plat == get_env_variable(env, "CBCI_DEFAULT_MACOS_X86_64_PLATFORM")[1]
        macos_arm64_plat == get_env_variable(env, "CBCI_DEFAULT_MACOS_ARM64_PLATFORM")[1]
    IN
    IF stage = BUILD_WHEEL THEN
        LET m1 == IF "macos" \in Range(x86_64_platforms)
                  THEN Put(Put(EmptyDict, "os", <<macos_x86_64_plat>>), "arch", <<"x86_64">>)
                  ELSE EmptyDict
            m2 == IF "macos" \in Range(arm64_platforms)
                  THEN PutOrAppend(PutOrAppend(m1, "os", macos_arm64_plat), "arch", "arm64")
                  ELSE m1
            m3 == Put(m2, "python-version", python_versions)
        IN IF DOMAIN m2 = {} THEN m2
           ELSE IF "arm64" \in Range(m3["arch"]) /\ "x86_64" \in Range(m3["arch"])
                THEN Put(m3, "exlude", <<ExcludePair("os", macos_x86_64_plat, "arm64"),
                                         ExcludePair("os", macos_arm64_plat, "x86_64")>>)
                ELSE m3
    ELSE IF stage = VALIDATE_WHEEL THEN
        LET m1 == IF "macos" \in Range(x86_64_platforms)
                  THEN Put(EmptyDict, "os", <<macos_x86_64_plat>>)
                  ELSE EmptyDict
            m2 == IF "macos" \in Range(arm64_platforms)
                  THEN PutOrAppend(m1, "os", macos_arm64_plat)
                  ELSE m1
        IN IF DOMAIN m2 # {} THEN Put(m2, "python-version", python_versions) ELSE m2
    ELSE EmptyDict

build_windows_stage_matrix(python_versions, x86_64_platforms, arm64_platforms, stage, env) ==
    IF stage \in {BUILD_WHEEL, VALIDATE_WHEEL} /\ "windows" \in Range(x86_64_platforms)
    THEN Put(Put(Put(EmptyDict, "os",
                     <<get_env_variable(env, "CBCI_DEFAULT_WINDOWS_PLATFORM")[1]>>),
                 "arch", <<"AMD64">>),
             "python-version", python_versions)
    ELSE EmptyDict

\* one family of build_stage_matrices: the fragment when it is not empty, and
\* the has_<family> flag either way
WithFamily(stage_matrices, family, matrix) ==
    IF DOMAIN matrix # {}
    THEN Put(Put(stage_matrices, family, matrix), "has_" \o family, TRUE)
    ELSE Put(stage_matrices, "has_" \o family, FALSE)

build_stage_matrices(python_versions, x86_64_platforms, arm64_platforms, env) ==
    LET stage_matrices(stage) ==
            WithFamily(
                WithFamily(
                    WithFamily(EmptyDict, "linux",
                               build_linux_stage_matrix(python_versions, x86_64_platforms,
                                                        arm64_platforms, stage, env)),
                    "macos",
                    build_macos_stage_matrix(python_versions, x86_64_platforms,
                                             arm64_platforms, stage, env)),
                "windows",
                build_windows_stage_matrix(python_versions, x86_64_platforms,
                                           arm64_platforms, stage, env))
    IN [stage_name \in {"build_wheels", "validate_wheels"} |->
            stage_matrices(IF stage_name = "build_wheels" THEN BUILD_WHEEL ELSE VALIDATE_WHEEL)]

\* dict.get(key, '') on the user's object, whose entries are optional texts
GetOrEmpty(user_config, key) == IF user_config[key] = None THEN <<>> ELSE user_config[key][1]

\* parse_user_config, with the architecture list set_os_and_arch worked on
parse_user_config(user_config, env) ==
    LET versions == set_python_versions(
                        IF user_config["python_versions"] # None
                        THEN user_config["python_versions"][1]
                        ELSE GetOrEmpty(user_config, "python-versions"),
                        env)
        plats == set_os_and_arch(GetOrEmpty(user_config, "platforms"),
                                 GetOrEmpty(user_config, "arches"), env)
    IN [python_versions |-> IF versions # <<>> THEN versions
                            ELSE get_supported_python_versions(env),
        x86_64_platforms |-> plats.x86_64_platforms,
        arm64_platforms |-> plats.arm64_platforms,
        arches |-> plats.arches]

-----------------------------------------------------------------------------
(* The environment and the inputs the model draws *)

EnvNames == {"CBCI_PROJECT_TYPE", "PREFER_CCACHE", "PREFER_VERBOSE_MAKEFILE",
             "CBCI_SUPPORTED_PYTHON_VERSIONS",
             "CBCI_SUPPORTED_X86_64_PLATFORMS", "CBCI_SUPPORTED_ARM64_PLATFORMS",
             "CBCI_DEFAULT_LINUX_CONTAINER", "CBCI_DEFAULT_ALPINE_CONTAINER",
             "CBCI_DEFAULT_LINUX_PLATFORM", "CBCI_DEFAULT_MACOS_X86_64_PLATFORM",
             "CBCI_DEFAULT_MACOS_ARM64_PLATFORM", "CBCI_DEFAULT_WINDOWS_PLATFORM"}

UnsetEnv == [k \in EnvNames |-> None]

ProjectEnvValues == {None, Some("columnar"), Some("PYCBC"), Some("bogus")}

\* <<PREFER_CCACHE, PREFER_VERBOSE_MAKEFILE>>
HintEnvValues == {<<None, None>>, <<Some("/ccache"), None>>, <<None, Some("1")>>,
                  <<Some("/ccache"), Some("1")>>, <<Some(""), None>>}

JsonValuePool == {JBool(TRUE), JBool(FALSE), JNum("0"), JNum("1"), JNum("2"),
                  JStr("Debug"), JNull}

\* the entries a user object is made of: two options with every value, and an
\* option with a hint-dependent default, the option only a hint adds, a
\* reserved matrix key and an unknown key with three values each
UserEntryPool ==
    [key : {"USE_OPENSSL", "SET_CPM_CACHE"}, value : JsonValuePool]
    \cup [key : {"CB_CACHE_OPTION", "FOO"}, value : {JBool(TRUE), JNum("1"), JStr("Debug")}]
    \cup [key : {"CCACHE_DIR", "platforms"}, value : {JBool(FALSE), JNum("0"), JStr("Debug")}]

\* JSON objects of at most MaxKeys entries, keys distinct
UserObjects ==
    {obj \in SeqsUpTo(UserEntryPool, MaxKeys) :
        \A i, j \in 1..Len(obj) : obj[i].key = obj[j].key => i = j}

RawConfigs ==
    {[kind |-> "unset", obj |-> <<>>], [kind |-> "invalid", obj |-> <<>>]}
    \cup {[kind |-> "object", obj |-> o] : o \in UserObjects}

-----------------------------------------------------------------------------
(* Commands of the dispatcher *)

NoCall == [fn |-> "none"]
NoRet == [exit |-> 0]

Init ==
    /\ pc = "start"
    /\ environ = UnsetEnv
    /\ call = NoCall
    /\ ret = NoRet

ConfigEnv(project, hints) ==
    [UnsetEnv EXCEPT !["CBCI_PROJECT_TYPE"] = project,
                     !["PREFER_CCACHE"] = hints[1],
                     !["PREFER_VERBOSE_MAKEFILE"] = hints[2]]

\* `parse_sdist_config <env-key>` and `parse_wheel_config <env-key>`.  The
\* project is resolved first: when that exits, the user's configuration is
\* never read.
ParseConfig(stage) ==
    /\ pc = "start"
    /\ \E project \in ProjectEnvValues, hints \in HintEnvValues :
        LET env == ConfigEnv(project, hints) IN
        /\ environ' = env
        /\ \E raw \in IF SdkProject_from_env(env) = None
                       THEN {[kind |-> "unset", obj |-> <<>>]} ELSE RawConfigs :
            /\ call' = [fn |-> "parse_config", stage |-> stage, raw_config |-> raw]
            /\ ret' = parse_config(stage, env, raw)
    /\ pc' = "done"

ParseSdistConfig == ParseConfig(BUILD_SDIST)

ParseWheelConfig == ParseConfig(BUILD_WHEEL)

NextConfig == ParseSdistConfig \/ ParseWheelConfig

SpecConfig == Init /\ [][NextConfig]_vars

-----------------------------------------------------------------------------
(* get_stage_matrices: parse_user_config, then build_stage_matrices *)

\* the text of the words joined by a separator lexeme
RECURSIVE JoinText(_, _)
JoinText(words, sep) ==
    IF words = <<>> THEN <<>>
    ELSE IF Len(words) = 1 THEN <<words[1]>>
         ELSE <<words[1], sep>> \o JoinText(Tail(words), sep)

\* the text of the texts joined by a separator lexeme
RECURSIVE JoinTexts(_, _)
JoinTexts(texts, sep) ==
    IF texts = <<>> THEN <<>>
    ELSE IF Len(texts) = 1 THEN texts[1]
         ELSE texts[1] \o <<sep>> \o JoinTexts(Tail(texts), sep)

Separators == {",", " "}

ArchWordPool == {"x86_64", "arm64", "aarch64", "ARM64", "riscv"}
PlatformWordPool == {"linux", "Alpine", "macos", "bsd"}

\* an optional text: the key is missing, or holds words joined by a separator
OptionalTexts(pool, n) ==
    {None} \cup {Some(JoinText(w, sep)) : w \in SeqsUpTo(pool, n), sep \in Separators}

\* <<python_versions, python-versions>> of the user's object
VersionEntries == {<<None, None>>, <<None, Some(<<"3", ".", "1", "0", ",", "4", ".", "0">>)>>}

\* <<CBCI_SUPPORTED_X86_64_PLATFORMS, CBCI_SUPPORTED_ARM64_PLATFORMS>>
PlatformWhitelists ==
    {<<JoinText(<<"linux", "alpine", "macos", "windows">>, " "),
       JoinText(<<"linux", "macos">>, " ")>>,
     <<JoinText(<<"alpine", "windows">>, " "), JoinText(<<"linux">>, " ")>>}

VersionWhitelist == <<"3", ".", "1", "0", " ", "3", ".", "1", "1">>

MatrixEnv(whitelists) ==
    [UnsetEnv EXCEPT
        !["CBCI_SUPPORTED_PYTHON_VERSIONS"] = Some(VersionWhitelist),
        !["CBCI_SUPPORTED_X86_64_PLATFORMS"] = Some(whitelists[1]),
        !["CBCI_SUPPORTED_ARM64_PLATFORMS"] = Some(whitelists[2]),
        !["CBCI_DEFAULT_LINUX_CONTAINER"] = Some("linux-container"),
        !["CBCI_DEFAULT_ALPINE_CONTAINER"] = Some("alpine-container"),
        !["CBCI_DEFAULT_LINUX_PLATFORM"] = Some("ubuntu-22.04"),
        !["CBCI_DEFAULT_MACOS_X86_64_PLATFORM"] = Some("macos-13"),
        !["CBCI_DEFAULT_MACOS_ARM64_PLATFORM"] = Some("macos-14"),
        !["CBCI_DEFAULT_WINDOWS_PLATFORM"] = Some("windows-2022")]

\* get_stage_matrices, first half: config = parse_user_config(config_key)
ParseUserConfig ==
    /\ pc = "start"
    /\ \E whitelists \in PlatformWhitelists, versions \in VersionEntries,
          platforms \in OptionalTexts(PlatformWordPool, MaxPlatforms),
          arches \in OptionalTexts(ArchWordPool, MaxArches) :
        LET env == MatrixEnv(whitelists)
            user_config == [k \in STAGE_MATRIX_KEYS |->
                                CASE k = "python_versions" -> versions[1]
                                  [] k = "python-versions" -> versions[2]
                                  [] k = "platforms" -> platforms
                                  [] OTHER -> arches]
        IN /\ environ' = env
           /\ call' = [fn |-> "get_stage_matrices", user_config |-> user_config]
           /\ ret' = [exit |-> 0, config |-> parse_user_config(user_config, env)]
    /\ pc' = "platforms"

\* get_stage_matrices, second half: build_stage_matrices and the print
BuildStageMatrices ==
    /\ pc = "platforms"
    /\ ret' = [exit |-> 0, config |-> ret.config,
               matrices |-> build_stage_matrices(ret.config.python_versions,
                                                 ret.config.x86_64_platforms,
                                                 ret.config.arm64_platforms, environ)]
    /\ pc' = "done"
    /\ UNCHANGED <<environ, call>>

NextStage == ParseUserConfig \/ BuildStageMatrices

SpecStage == Init /\ [][NextStage]_vars

-----------------------------------------------------------------------------
(* build_linux_stage_matrix called on any two platform lists *)

PlatformNames == {"linux", "alpine", "macos", "windows"}

BuildLinuxStageMatrix ==
    /\ pc = "start"
    /\ \E stage \in {BUILD_SDIST, BUILD_WHEEL, VALIDATE_WHEEL},
          x86_64_platforms \in SeqsUpTo(PlatformNames, MaxPlatforms),
          arm64_platforms \in SeqsUpTo(PlatformNames, MaxPlatforms) :
        LET env == MatrixEnv(<<<<>>, <<>>>>)
            python_versions == get_supported_python_versions(env)
        IN /\ environ' = env
           /\ call' = [fn |-> "build_linux_stage_matrix", stage |-> stage,
                       python_versions |-> python_versions,
                       x86_64_platforms |-> x86_64_platforms,
                       arm64_platforms |-> arm64_platforms]
           /\ ret' = [exit |-> 0,
                      matrix |-> build_linux_stage_matrix(python_versions, x86_64_platforms,
                                                          arm64_platforms, stage, env)]
    /\ pc' = "done"

NextLinux == BuildLinuxStageMatrix

SpecLinux == Init /\ [][NextLinux]_vars

-----------------------------------------------------------------------------
(* is_supported_python_version and set_python_versions on any version text *)

VersionChars == {"3", "4", "0", "1", "."}

\* CBCI_SUPPORTED_PYTHON_VERSIONS
VersionWhitelists == {VersionWhitelist, <<"3", ".", "4">>, <<" ">>}

VersionPool == {<<"3">>, <<"4">>, <<"3", ".", "1", "0">>, <<"3", ".", "1", "1", ".", "4">>,
                <<"3", ".", "4", ".", "0">>, <<"4", ".", "0">>, <<"3", ".", "1">>,
                <<"3", ".", "1", "0", ".", "1", ".", "0">>}

VersionEnv(whitelist) ==
    [UnsetEnv EXCEPT !["CBCI_SUPPORTED_PYTHON_VERSIONS"] = Some(whitelist)]

IsSupportedPythonVersion ==
    /\ pc = "start"
    /\ \E whitelist \in VersionWhitelists, version \in SeqsUpTo(VersionChars, MaxVerLen) :
        /\ environ' = VersionEnv(whitelist)
        /\ call' = [fn |-> "is_supported_python_version", version |-> version]
        /\ ret' = [exit |-> 0,
                   supported |-> is_supported_python_version(version, VersionEnv(whitelist))]
    /\ pc' = "done"

SetPythonVersions ==
    /\ pc = "start"
    /\ \E whitelist \in VersionWhitelists, requested \in SeqsUpTo(VersionPool, MaxVersions),
          sep \in Separators :
        LET text == JoinTexts(requested, sep)
        IN /\ environ' = VersionEnv(whitelist)
           /\ call' = [fn |-> "set_python_versions", user_config |-> text]
           /\ ret' = [exit |-> 0,
                      versions |-> set_python_versions(text, VersionEnv(whitelist))]
    /\ pc' = "done"

NextVersions == IsSupportedPythonVersion \/ SetPythonVersions

SpecVersions == Init /\ [][NextVersions]_vars

-----------------------------------------------------------------------------
(* Every command together *)

Next == NextConfig \/ NextStage \/ NextLinux \/ NextVersions

Spec == Init /\ [][Next]_vars

-----------------------------------------------------------------------------
(* Properties of parse_config, checked under SpecConfig *)

ConfigPrinted == pc = "done" /\ call.fn = "parse_config" /\ ret.exit = 0

\* the object parse_config iterates over ({} when the variable is unset)
UserObject == IF call.raw_config.kind = "object" THEN call.raw_config.obj ELSE <<>>

ProjectCode == SdkProject_from_env(environ)[1]

NoHints == environ["PREFER_CCACHE"] = None /\ environ["PREFER_VERBOSE_MAKEFILE"] = None

CcacheHinted ==
    /\ call.stage = BUILD_WHEEL
    /\ environ["PREFER_CCACHE"] # None
    /\ environ["PREFER_CCACHE"] # Some("")

VerboseHinted ==
    /\ call.stage = BUILD_WHEEL
    /\ environ["PREFER_VERBOSE_MAKEFILE"] # None
    /\ environ["PREFER_VERBOSE_MAKEFILE"] # Some("")

\* the option names of the stage's table, and the alias each is printed under
OptionNames ==
    {"USE_OPENSSL", "OPENSSL_VERSION", "SET_CPM_CACHE", "USE_LIMITED_API",
     "VERBOSE_MAKEFILE", "BUILD_TYPE", "CB_CACHE_OPTION"}
    \cup (IF CcacheHinted THEN {"CCACHE_DIR"} ELSE {})

AliasOf(key) ==
    CASE key = "CCACHE_DIR" -> "CCACHE_DIR"
      [] key = "USE_LIMITED_API" -> ProjectCode \o "_LIMITED_API"
      [] OTHER -> ProjectCode \o "_" \o key

\* the options required with a default at the call's stage, with that default
RequiredDefaults ==
    {<<"USE_OPENSSL", "OFF">>}
    \cup (IF call.stage = BUILD_SDIST THEN {<<"SET_CPM_CACHE", "ON">>} ELSE {})
    \cup (IF call.stage = BUILD_WHEEL THEN {<<"BUILD_TYPE", "RelWithDebInfo">>} ELSE {})
    \cup (IF CcacheHinted
          THEN {<<"CB_CACHE_OPTION", "ccache">>,
                <<"CCACHE_DIR", environ["PREFER_CCACHE"][1]>>}
          ELSE {})
    \cup (IF VerboseHinted THEN {<<"VERBOSE_MAKEFILE", "ON">>} ELSE {})

TokensOf(alias) == {i \in 1..Len(ret.tokens) : ret.tokens[i].alias = alias}

SdistEmptyNoHints ==
    /\ ConfigPrinted
    /\ call.stage = BUILD_SDIST
    /\ UserObject = <<>>
    /\ NoHints

\* C1 (as claimed): at BUILD_SDIST with an empty user configuration and no
\* PREFER_CCACHE / PREFER_VERBOSE_MAKEFILE hint, parse_config emits exactly one
\* token, <project>_SET_CPM_CACHE=ON, and nothing else.
C1_SdistEmitsOnlyCacheInit ==
    SdistEmptyNoHints =>
        ret.tokens = <<[alias |-> ProjectCode \o "_SET_CPM_CACHE", value |-> "ON"]>>

\* C1 (amended): in that case parse_config emits exactly two tokens, in this
\* order: <project>_USE_OPENSSL=OFF (USE_OPENSSL is required in the static
\* table) and <project>_SET_CPM_CACHE=ON.
C1_SdistEmitsOpensslAndCacheInit ==
    SdistEmptyNoHints =>
        /\ ret.tokens = <<[alias |-> ProjectCode \o "_USE_OPENSSL", value |-> "OFF"],
                          [alias |-> ProjectCode \o "_SET_CPM_CACHE", value |-> "ON"]>>
        /\ ret.line = ProjectCode \o "_USE_OPENSSL=OFF " \o ProjectCode \o "_SET_CPM_CACHE=ON"

C1_Witness ==
    /\ SdistEmptyNoHints
    /\ ProjectCode = Columnar
    /\ call.raw_config.kind = "object"
    /\ ret.line = "PYCBCC_USE_OPENSSL=OFF PYCBCC_SET_CPM_CACHE=ON"

\* C2: every user-supplied value of a recognized option is emitted as ON / OFF
\* when it is the JSON boolean true / false, and unchanged (as its own text)
\* when it is anything else, the numbers 0 and 1 included.
C2_OnlyBooleansCoerced ==
    ConfigPrinted =>
        \A i \in 1..Len(UserObject) :
            LET e == UserObject[i] IN
            (e.key \in OptionNames /\ e.key \notin STAGE_MATRIX_KEYS) =>
                \E j \in TokensOf(AliasOf(e.key)) :
                    ret.tokens[j].value =
                        IF e.value.t = "bool"
                        THEN (IF e.value.v = "true" THEN "ON" ELSE "OFF")
                        ELSE PyStr(e.value)

\* the form in which parse_config emits a value the user supplied
EmittedForm(value) == PyStr(CoerceValue(value))

IsForeignKey(key) == key \in STAGE_MATRIX_KEYS \/ key \notin OptionNames

WithoutForeignKeys(obj) ==
    SelectSeqBy(obj, {e \in Range(obj) : ~IsForeignKey(e.key)})

\* C9: an unknown key or a reserved matrix key never fails parse_config and
\* never contributes a token: every token's alias is that of an option, and the
\* tokens are those emitted for the user object without these keys.
C9_ForeignKeysIgnored ==
    (/\ pc = "done"
     /\ call.fn = "parse_config"
     /\ call.raw_config.kind = "object"
     /\ SdkProject_from_env(environ) # None) =>
        /\ ret.exit = 0
        /\ \A j \in 1..Len(ret.tokens) : \E k \in OptionNames : ret.tokens[j].alias = AliasOf(k)
        /\ ret.tokens =
             parse_config(call.stage, environ,
                          [kind |-> "object", obj |-> WithoutForeignKeys(UserObject)]).tokens

\* an unknown key ahead of a supplied option: only the option is emitted from
\* the user's object
C9_Witness ==
    /\ ConfigPrinted
    /\ call.stage = BUILD_SDIST
    /\ UserObject = <<[key |-> "FOO", value |-> JBool(TRUE)],
                      [key |-> "SET_CPM_CACHE", value |-> JBool(FALSE)]>>
    /\ ret.line = "PYCBC_SET_CPM_CACHE=OFF PYCBC_USE_OPENSSL=OFF"

-----------------------------------------------------------------------------
(* Properties of set_os_and_arch, checked under SpecStage *)

ConfigParsed == pc \in {"platforms", "done"} /\ call.fn = "get_stage_matrices"

\* the words of the user's platforms / arches string, lower-cased, in order
RequestedPlatforms == SplitList(GetOrEmpty(call.user_config, "platforms"))
RequestedArches == SplitList(GetOrEmpty(call.user_config, "arches"))

SupportedArches == {"x86_64", "arm64", "aarch64"}

\* the requested platforms that are in the whitelist, or the whole whitelist
FilteredOrWhitelist(whitelist) ==
    LET filtered == SelectSeq(RequestedPlatforms, LAMBDA p : p \in Range(whitelist))
    IN IF filtered = <<>> THEN whitelist ELSE filtered

\* C3: when x86_64 is among the normalized architectures, the x86_64 platform
\* list is the requested platforms that are in the x86_64 whitelist (the whole
\* whitelist when none is); likewise the arm64 list against the arm64
\* whitelist when arm64 or aarch64 is among them: each list against its own
\* whitelist, whatever else was requested and whether or not arches was given.
C3_PlatformsFilteredPerArch ==
    ConfigParsed =>
        /\ "x86_64" \in Range(ret.config.arches) =>
              ret.config.x86_64_platforms =
                  FilteredOrWhitelist(get_supported_platforms("x86_64", environ))
        /\ (\E a \in {"arm64", "aarch64"} : a \in Range(ret.config.arches)) =>
              ret.config.arm64_platforms =
                  FilteredOrWhitelist(get_supported_platforms("arm64", environ))

\* C4: the architecture list kept after filtering holds only x86_64, arm64 and
\* aarch64, and is the default [x86_64, arm64] when the request names no
\* supported architecture.
C4_OnlySupportedArchesKept ==
    ConfigParsed =>
        /\ Range(ret.config.arches) \subseteq SupportedArches
        /\ Range(RequestedArches) \cap SupportedArches = {} =>
              ret.config.arches = <<"x86_64", "arm64">>

\* C8: the normalized architecture list never holds both arm64 and aarch64.
C8_NeverBothArmSpellings ==
    ConfigParsed =>
        ~("arm64" \in Range(ret.config.arches) /\ "aarch64" \in Range(ret.config.arches))

-----------------------------------------------------------------------------
(* Properties of build_linux_stage_matrix, checked under SpecLinux *)

LinuxBuilt(stage) ==
    pc = "done" /\ call.fn = "build_linux_stage_matrix" /\ call.stage = stage

ListOf(matrix, key) == IF Has(matrix, key) THEN matrix[key] ELSE <<>>

\* C5: at the wheel-build and at the wheel-validate stage, whenever alpine is
\* in the x86_64 platform list the fragment's arch list contains x86_64.
C5_AlpineBringsX86 ==
    (/\ LinuxBuilt(BUILD_WHEEL) \/ LinuxBuilt(VALIDATE_WHEEL)
     /\ "alpine" \in Range(call.x86_64_platforms)) =>
        "x86_64" \in Range(ListOf(ret.matrix, "arch"))

MuslAarch64Pair == [k \in {"linux-type", "arch"} |-> IF k = "arch" THEN "aarch64" ELSE "musllinux"]

\* C7: at the wheel-build stage the fragment carries the exclusion pair
\* {linux-type: musllinux, arch: aarch64} (under the source's key 'exlude')
\* exactly when its arch list contains aarch64 and its linux-type list contains
\* musllinux; for x86_64 platforms [linux, alpine] and arm64 platforms [linux]
\* linux-type is [manylinux, musllinux], arch holds x86_64 and aarch64, and the
\* pair is there.
C7_MuslAarch64Excluded ==
    LinuxBuilt(BUILD_WHEEL) =>
        /\ (Has(ret.matrix, "exlude") /\ ret.matrix["exlude"] = <<MuslAarch64Pair>>)
             <=> (/\ "aarch64" \in Range(ListOf(ret.matrix, "arch"))
                  /\ "musllinux" \in Range(ListOf(ret.matrix, "linux-type")))
        /\ Has(ret.matrix, "exlude") => ret.matrix["exlude"] = <<MuslAarch64Pair>>
        /\ (call.x86_64_platforms = <<"linux", "alpine">> /\ call.arm64_platforms = <<"linux">>) =>
              /\ ret.matrix["linux-type"] = <<"manylinux", "musllinux">>
              /\ {"x86_64", "aarch64"} \subseteq Range(ret.matrix["arch"])
              /\ ret.matrix["exlude"] = <<MuslAarch64Pair>>

C7_Witness ==
    /\ LinuxBuilt(BUILD_WHEEL)
    /\ call.x86_64_platforms = <<"linux", "alpine">>
    /\ call.arm64_platforms = <<"linux">>
    /\ ret.matrix["arch"] = <<"x86_64", "aarch64">>
    /\ Has(ret.matrix, "exlude")

-----------------------------------------------------------------------------
(* Properties of the version functions, checked under SpecVersions *)

Whitelisted(text) == Str(text) \in Range(get_supported_python_versions(environ))

DotsOf(v) == {i \in 1..Len(v) : v[i] = "."}

\* the claim's predicate, by counting dots: one component that is '3'; two
\* components, v whitelisted; three components, the text before the second
\* dot whitelisted
ExpectedSupported(v) ==
    \/ v = <<"3">>
    \/ Cardinality(DotsOf(v)) = 1 /\ Whitelisted(v)
    \/ /\ Cardinality(DotsOf(v)) = 2
       /\ Whitelisted(SubSeq(v, 1, (CHOOSE i \in DotsOf(v) : \A j \in DotsOf(v) : j <= i) - 1))

\* the versions a request names: its maximal runs free of ',' and ' '
RequestedVersions(text) ==
    LET free(i) == text[i] \notin Separators
        starts == {i \in 1..Len(text) : free(i) /\ (i = 1 \/ ~free(i - 1))}
        endOf(i) == CHOOSE j \in i..Len(text) :
                        /\ \A k \in i..j : free(k)
                        /\ (j = Len(text) \/ ~free(j + 1))
        nth(n) == CHOOSE i \in starts : Cardinality({k \in starts : k < i}) = n - 1
    IN [n \in 1..Cardinality(starts) |-> SubSeq(text, nth(n), endOf(nth(n)))]

\* C10: is_supported_python_version(v) is true exactly for the single token
\* '3', a two-component v in the whitelist, and a three-component v whose first
\* two components joined by '.' are in the whitelist; set_python_versions keeps
\* exactly the requested versions for which it is true, in request order.
C10_SupportedVersions ==
    /\ (pc = "done" /\ call.fn = "is_supported_python_version") =>
          (ret.supported <=> ExpectedSupported(call.version))
    /\ (pc = "done" /\ call.fn = "set_python_versions") =>
          LET kept == SelectSeq(RequestedVersions(call.user_config), ExpectedSupported)
          IN ret.versions = [i \in 1..Len(kept) |-> Str(kept[i])]

\* a request of a patch version of a whitelisted minor and of '4.0': only the
\* first is kept
C10_Witness ==
    /\ pc = "done"
    /\ call.fn = "set_python_versions"
    /\ environ["CBCI_SUPPORTED_PYTHON_VERSIONS"] = Some(VersionWhitelist)
    /\ call.user_config = <<"3", ".", "1", "1", ".", "4", ",", "4", ".", "0">>
    /\ ret.versions = <<"3.11.4">>

=============================================================================
